---- MODULE Spec2Model ----
(***************************************************************************)
(* Model of src/src/actionCreator.ts: createAction, createActions, the     *)
(* action creators they return and the reducers they merge into the        *)
(* reducer registry.                                                       *)
(*                                                                         *)
(* JavaScript values are encoded as strings: "undefined", "null", "true",  *)
(* "false" and "5" stand for undefined, null, the booleans and the number  *)
(* 5; "" is the empty string; "K1", "K2", "not-a-fn" are non-empty         *)
(* strings; "S0", "S1" are state objects; "fn:..." are functions.  Plain   *)
(* objects (options, handlers, builder results, dispatched actions) are    *)
(* records whose domain is the set of fields the object has.               *)
(***************************************************************************)
EXTENDS Integers, Sequences, FiniteSets, TLC

VARIABLES
    registry,   \* the reducer registry: the merges done so far, in order
    creators,   \* the action creators returned to the caller so far
    pending,    \* the registration call the program is about to make, if it is fixed
    last,       \* the last call: its operation, its inputs and its outcome
    calls       \* number of calls made so far

vars == <<registry, creators, pending, last, calls>>

\* ------------------------------------------------------------------ bounds
\* the number of calls (registrations, creator calls, reducer calls) in a run
MaxCalls == 2

\* ------------------------------------------------------------ JS values
Undefined == "undefined"
Null == "null"

FunctionValues ==
    {"fn:onWait", "fn:onSuccess", "fn:onFail", "fn:handler", "fn:promise", "fn:action"}

\* ToBoolean on the scalar values of the model
Truthy(v) == v \notin {Undefined, Null, "false", ""}

\* ToBoolean on an array: every array, the empty one included, is an object
ArrayTruthy(arr) == TRUE

\* a || b
Or(a, b) == IF Truthy(a) THEN a ELSE b

\* const isFunction = (thing) => typeof thing === 'function'
isFunction(thing) == thing \in FunctionValues

\* the value of a destructured field: undefined when the object lacks it
Field(obj, f) == IF f \in DOMAIN obj THEN obj[f] ELSE Undefined

\* const {promise, type, ...rest} = obj : the rest
Omit(obj, fields) == [f \in (DOMAIN obj) \ fields |-> obj[f]]

\* {...base, ...over} : a later field replaces an earlier one of the same name
Spread(base, over) ==
    [f \in (DOMAIN base) \cup (DOMAIN over) |->
        IF f \in DOMAIN over THEN over[f] ELSE base[f]]

\* the value a user-supplied handler returns for (state, action)
Call(h, state, action) == h \o "(" \o state \o "," \o action.type \o ")"

\* ------------------------------------------------------- createAction
WAIT(name) == "WAIT@" \o name
SUCCESS(name) == "SUCCESS@" \o name
BadFAIL(name) == "FAIL@"
FAIL(name) == "FAIL@" \o name

NoError == "none"
ErrInitialState == "Initial state should not be null or undefined"
ErrStoreKey == "Store key at action not defined"
ErrHandlers == "Expected handlers in async action"
ErrHandler == "Expected that synchronous action handler will be a function"
ErrPromise == "Async action should return promise property of Function type"
ErrNoActions == "No any action passed"
ErrNotFunction(fnName) == "Expected that the " \o fnName \o " will be a function"

\* the error checkAsyncHandlers throws, NoError when it returns
BadCheckAsyncHandlers(handlers) ==
    IF ~isFunction(handlers.onWait) THEN ErrNotFunction("onWait")
    ELSE IF ~isFunction(handlers.onSuccess) THEN ErrNotFunction("onSuccess")
    ELSE NoError
checkAsyncHandlers(handlers) ==
    IF ~isFunction(handlers.onWait) THEN ErrNotFunction("onWait")
    ELSE IF ~isFunction(handlers.onSuccess) THEN ErrNotFunction("onSuccess")
    ELSE IF ~isFunction(handlers.onFail) THEN ErrNotFunction("onFail")
    ELSE NoError

\* the closure built at line 58
asyncReducer(name, handlers, initialState) ==
    [mode |-> "async", name |-> name, initialState |-> initialState,
     WAIT |-> WAIT(name), SUCCESS |-> SUCCESS(name), FAIL |-> FAIL(name),
     handlers |-> handlers]

\* the closure built at line 78
syncReducer(name, handler, initialState) ==
    [mode |-> "sync", name |-> name, initialState |-> initialState,
     handler |-> handler]

\* the closure returned at line 83
creatorOf(name, options) ==
    [name |-> name, type |-> name, async |-> options.async,
     WAIT |-> WAIT(name), SUCCESS |-> SUCCESS(name), FAIL |-> FAIL(name),
     action |-> options.action]

\* mergeReducer(storeKey, reducer) of ./easy-redux
mergeReducer(reg, storeKey, reducer) ==
    Append(reg, [storeKey |-> storeKey, reducer |-> reducer])

Throw(reg, message) == [error |-> message, registry |-> reg, returned |-> <<>>]

\* createAction(name, options) run against registry reg: the error thrown (or
\* NoError), the registry afterwards and the creator returned (if any)
createAction(reg, name, options) ==
    LET async == options.async
        storeKey == options.storeKey
        handlersGiven == "handlers" \in DOMAIN options
        handler == options.handler
        initialState == options.initialState
    IN  IF ~Truthy(initialState) THEN Throw(reg, ErrInitialState)
        ELSE IF ~Truthy(storeKey) THEN Throw(reg, ErrStoreKey)
        ELSE IF Truthy(async) /\ handlersGiven THEN
            IF checkAsyncHandlers(options.handlers) # NoError
            THEN Throw(reg, checkAsyncHandlers(options.handlers))
            ELSE [error |-> NoError,
                  registry |-> mergeReducer(reg, storeKey,
                                  asyncReducer(name, options.handlers, initialState)),
                  returned |-> <<creatorOf(name, options)>>]
        ELSE IF Truthy(async) /\ ~handlersGiven THEN Throw(reg, ErrHandlers)
        ELSE IF ~isFunction(handler) THEN Throw(reg, ErrHandler)
        ELSE [error |-> NoError,
              registry |-> mergeReducer(reg, storeKey,
                              syncReducer(name, handler, initialState)),
              returned |-> <<creatorOf(name, options)>>]

\* ------------------------------------------------------- the reducers
\* the reducer closure r applied to (state, action); state defaults to the
\* initial state when it is undefined
BadReducerApply(r, stateArg, action) ==
    LET state == IF stateArg = Undefined THEN r.initialState ELSE stateArg
    IN  IF r.mode = "async" THEN
            IF action.type = r.WAIT THEN Call(r.handlers.onWait, state, action)
            ELSE IF action.type = r.SUCCESS THEN Call(r.handlers.onFail, state, action)
            ELSE IF action.type = r.FAIL THEN Call(r.handlers.onSuccess, state, action)
            ELSE state
        ELSE IF action.type = r.name THEN Call(r.handler, state, action) ELSE state
reducerApply(r, stateArg, action) ==
    LET state == IF stateArg = Undefined THEN r.initialState ELSE stateArg
    IN  IF r.mode = "async" THEN
            IF action.type = r.WAIT THEN Call(r.handlers.onWait, state, action)
            ELSE IF action.type = r.SUCCESS THEN Call(r.handlers.onSuccess, state, action)
            ELSE IF action.type = r.FAIL THEN Call(r.handlers.onFail, state, action)
            ELSE state
        ELSE IF action.type = r.name THEN Call(r.handler, state, action) ELSE state

\* ------------------------------------------------------- the creators
\* ...actionPayload of line 85
BadActionPayload(built) == Omit(built, {"promise"})
actionPayload(built) == Omit(built, {"promise", "type"})

\* typeof promise !== 'function' of line 87
BadPromiseRejected(promise) == promise = Undefined
promiseRejected(promise) == ~isFunction(promise)

\* the creator closure c called, its payload builder returning built
creatorCall(c, built) ==
    LET promise == Field(built, "promise")
    IN  IF Truthy(c.async) THEN
            IF promiseRejected(promise) THEN [error |-> ErrPromise]
            ELSE [error |-> NoError,
                  value |-> Spread([types |-> <<c.WAIT, c.SUCCESS, c.FAIL>>,
                                    promise |-> promise], actionPayload(built))]
        ELSE [error |-> NoError,
              value |-> Spread([type |-> c.type], actionPayload(built))]

\* ------------------------------------------------------- createActions
\* Object.keys(actions)
ObjectKeys(actions) == [i \in 1..Len(actions) |-> actions[i].name]

WithHandlers(o, h) ==
    [f \in (DOMAIN o) \cup {"handlers"} |-> IF f = "handlers" THEN h ELSE o[f]]

\* const async = optionAsync || !!handlers
BadResolveAsync(entry) == Or(entry.async, "false")
resolveAsync(entry) ==
    Or(entry.async, IF "handlers" \in DOMAIN entry THEN "true" ELSE "false")

\* the options createActions hands to createAction for one entry
entryOptions(entry, globalInitialState, globalStoreKey) ==
    LET o == [async |-> resolveAsync(entry), action |-> entry.action,
              handler |-> entry.handler,
              initialState |-> Or(entry.initialState, globalInitialState),
              storeKey |-> Or(entry.storeKey, globalStoreKey)]
    IN  IF "handlers" \in DOMAIN entry THEN WithHandlers(o, entry.handlers) ELSE o

\* Object.entries(actions).reduce(...): an entry that throws ends the loop,
\* what the entries before it merged stays merged
RECURSIVE reduceEntries(_, _, _, _)
reduceEntries(acc, entries, globalInitialState, globalStoreKey) ==
    IF entries = <<>> THEN acc
    ELSE LET e == Head(entries)
             out == createAction(acc.registry, e.name,
                        entryOptions(e.options, globalInitialState, globalStoreKey))
         IN  IF out.error # NoError THEN Throw(out.registry, out.error)
             ELSE reduceEntries(
                      [error |-> NoError, registry |-> out.registry,
                       returned |-> Append(acc.returned,
                                       [key |-> e.name, creator |-> out.returned[1]])],
                      Tail(entries), globalInitialState, globalStoreKey)

\* createActions(options) run against registry reg
createActions(reg, options) ==
    IF ~ArrayTruthy(ObjectKeys(options.actions)) THEN Throw(reg, ErrNoActions)
    ELSE reduceEntries([error |-> NoError, registry |-> reg, returned |-> <<>>],
                       options.actions, options.initialState, options.storeKey)

\* ------------------------------------------------------------- inputs
Names == {"a", "b", "WAIT@a"}

HandlerObjects ==
    [onWait : {"fn:onWait", "5"}, onSuccess : {"fn:onSuccess", Undefined},
     onFail : {"fn:onFail", "5"}]

ScalarOptions ==
    [action : {"fn:action"}, async : {Undefined, "false", "true"},
     storeKey : {Undefined, "", "K1", "K2"}, handler : {Undefined, "5", "fn:handler"},
     initialState : {Undefined, Null, "S0"}]

\* every options record createAction is called with
Options == ScalarOptions \cup {WithHandlers(o, h) : o \in ScalarOptions, h \in HandlerObjects}

\* the options of the calls that are interleaved with each other
SeqOptions ==
    {o \in Options :
        /\ o.storeKey # Undefined
        /\ o.initialState # Undefined
        /\ o.handler # "5"
        /\ "handlers" \in DOMAIN o =>
              isFunction(o.handlers.onWait) /\ isFunction(o.handlers.onSuccess)}

Requests == [op : {"createAction"}, name : Names, options : Options]

\* the entries of a batch
EntryHandlers ==
    {[onWait |-> "fn:onWait", onSuccess |-> "fn:onSuccess", onFail |-> "fn:onFail"],
     [onWait |-> "fn:onWait", onSuccess |-> "5", onFail |-> "fn:onFail"]}

ScalarEntries ==
    [action : {"fn:action"}, async : {Undefined, "false", "true"},
     storeKey : {Undefined, "", "K2"}, handler : {Undefined, "fn:handler"},
     initialState : {Undefined, "S1"}]

Entries == ScalarEntries \cup {WithHandlers(o, h) : o \in ScalarEntries, h \in EntryHandlers}

BatchNames == {"a", "b"}

\* an action mapping of at most two entries: its keys are distinct, in
\* insertion order
ActionMap(n, e, m, f, size) ==
    SubSeq(<<[name |-> n, options |-> e], [name |-> m, options |-> f]>>, 1, size)

GlobalInitialStates == {Undefined, "S0"}
GlobalStoreKeys == {Undefined, "K1"}

Arguments == {<<>>, <<"1">>}

\* what the payload builder returns
BuilderResults ==
    {[id |-> "7"],
     [type |-> "OTHER", id |-> "7"],
     [types |-> <<"X">>, id |-> "7"],
     [promise |-> "fn:promise", id |-> "7"],
     [promise |-> "fn:promise", type |-> "OTHER"],
     [promise |-> "fn:promise", types |-> <<"X">>],
     [promise |-> "not-a-fn", id |-> "7"]}

States == {Undefined, Null, "S1"}

DispatchTypes ==
    UNION {{n, WAIT(n), SUCCESS(n), FAIL(n)} : n \in Names} \cup {"OTHER"}

\* ------------------------------------------------------------ actions
InitVars ==
    /\ registry = <<>>
    /\ creators = <<>>
    /\ last = [op |-> "start"]
    /\ calls = 0

\* the program makes its calls one after the other
Init == InitVars /\ pending = <<>>

\* the program is about to make one createAction call
InitOne == InitVars /\ pending \in {<<r>> : r \in Requests}

\* the program is about to make one createActions call
InitBatch ==
    /\ InitVars
    /\ \E n \in BatchNames, m \in BatchNames, e \in Entries, f \in Entries,
          size \in 0..2, gi \in GlobalInitialStates, gk \in GlobalStoreKeys :
          /\ n # m
          /\ pending = <<[op |-> "createActions",
                          options |-> [actions |-> ActionMap(n, e, m, f, size),
                                       initialState |-> gi, storeKey |-> gk]]>>

CreateAction(name, options) ==
    /\ calls < MaxCalls
    /\ LET out == createAction(registry, name, options)
       IN  /\ registry' = out.registry
           /\ creators' = creators \o out.returned
           /\ last' = [op |-> "createAction", name |-> name, options |-> options,
                       before |-> registry, error |-> out.error,
                       returned |-> out.returned]
    /\ calls' = calls + 1

CreateActions(options) ==
    /\ calls < MaxCalls
    /\ LET out == createActions(registry, options)
       IN  /\ registry' = out.registry
           /\ creators' = creators \o [i \in 1..Len(out.returned) |-> out.returned[i].creator]
           /\ last' = [op |-> "createActions", options |-> options,
                       before |-> registry, error |-> out.error,
                       returned |-> out.returned]
    /\ calls' = calls + 1

InvokeCreatorMerging(i, args, built) ==
    /\ calls < MaxCalls
    /\ i \in 1..Len(creators)
    /\ last' = [op |-> "invoke", creator |-> creators[i], args |-> args,
                built |-> built, before |-> registry,
                out |-> creatorCall(creators[i], built)]
    /\ calls' = calls + 1
    /\ registry' = Append(registry, registry[i])
    /\ UNCHANGED <<creators, pending>>
InvokeCreator(i, args, built) ==
    /\ calls < MaxCalls
    /\ i \in 1..Len(creators)
    /\ last' = [op |-> "invoke", creator |-> creators[i], args |-> args,
                built |-> built, before |-> registry,
                out |-> creatorCall(creators[i], built)]
    /\ calls' = calls + 1
    /\ UNCHANGED <<registry, creators, pending>>

ApplyReducer(i, state, type) ==
    /\ calls < MaxCalls
    /\ i \in 1..Len(registry)
    /\ last' = [op |-> "reduce", reducer |-> registry[i].reducer, state |-> state,
                type |-> type, before |-> registry,
                result |-> reducerApply(registry[i].reducer, state, [type |-> type])]
    /\ calls' = calls + 1
    /\ UNCHANGED <<registry, creators, pending>>

Invoke == \E i \in 1..Len(creators), args \in Arguments, built \in BuilderResults :
              InvokeCreator(i, args, built)

Reduce == \E i \in 1..Len(registry), state \in States, type \in DispatchTypes :
              ApplyReducer(i, state, type)

Register == \E name \in Names, options \in SeqOptions :
                CreateAction(name, options) /\ UNCHANGED pending

RegisterPending ==
    /\ pending # <<>>
    /\ pending[1].op = "createAction"
    /\ CreateAction(pending[1].name, pending[1].options)
    /\ pending' = <<>>

RegisterBatch ==
    /\ pending # <<>>
    /\ pending[1].op = "createActions"
    /\ CreateActions(pending[1].options)
    /\ pending' = <<>>

Next == Register \/ Invoke \/ Reduce
NextOne == RegisterPending \/ Invoke \/ Reduce
NextBatch == RegisterBatch \/ Invoke \/ Reduce

\* any interleaving of createAction calls, creator calls and reducer calls
Spec == Init /\ [][Next]_vars

\* one createAction call, on any options, then creator and reducer calls
SpecOne == InitOne /\ [][NextOne]_vars

\* one createActions call, on any batch, then creator and reducer calls
SpecBatch == InitBatch /\ [][NextBatch]_vars

\* ------------------------------------------------------------- claims
\* the creators of the asynchronous registrations are those whose captured
\* async flag is truthy
IsAsyncCreator(c) == Truthy(c.async)

\* the fields of a builder result other than promise and type
PayloadFields(built) == (DOMAIN built) \ {"promise", "type"}

\* C1: createActions on an empty action mapping raises the 'no actions
\* supplied' error instead of returning a mapping.
C1_EmptyBatchRaises ==
    (last.op = "createActions" /\ Len(last.options.actions) = 0)
        => last.error = ErrNoActions

\* C2: a registration call (createAction, or createActions over any number of
\* entries) that raises leaves the reducer registry exactly as it was before
\* the call.
C2_NoPartialRegistration ==
    (last.op \in {"createAction", "createActions"} /\ last.error # NoError)
        => registry = last.before

\* C3: the creator of an asynchronous registration of name N, its builder
\* returning a function-valued promise, yields types = [WAIT@N, SUCCESS@N,
\* FAIL@N], the builder's promise, and the builder's other fields less type.
C3_AsyncCreatorShape ==
    (/\ last.op = "invoke"
     /\ IsAsyncCreator(last.creator)
     /\ Field(last.built, "promise") \in FunctionValues)
        => /\ last.out.error = NoError
           /\ last.out.value.types = <<"WAIT@" \o last.creator.name,
                                       "SUCCESS@" \o last.creator.name,
                                       "FAIL@" \o last.creator.name>>
           /\ last.out.value.promise = last.built.promise
           /\ DOMAIN last.out.value = {"types", "promise"} \cup PayloadFields(last.built)

\* C4: the creator of a synchronous registration of name N yields type = N
\* and exactly the builder's other fields less promise and type; a type or
\* promise of the builder never shows in the result.
C4_SyncCreatorShape ==
    (last.op = "invoke" /\ ~IsAsyncCreator(last.creator))
        => /\ last.out.error = NoError
           /\ DOMAIN last.out.value = {"type"} \cup PayloadFields(last.built)
           /\ last.out.value.type = last.creator.name
           /\ \A f \in PayloadFields(last.built) : last.out.value[f] = last.built[f]

C4_Witness ==
    /\ last.op = "invoke"
    /\ ~IsAsyncCreator(last.creator)
    /\ last.built = [type |-> "OTHER", id |-> "7"]
    /\ last.out.value = [type |-> last.creator.name, id |-> "7"]

\* C5: createAction raises, with nothing merged, exactly when the initial
\* state is null or undefined, or the store key is absent or empty, or async
\* is true and handlers is absent, or async is true and one of onWait,
\* onSuccess, onFail is not a function, or async is false or absent and
\* handler is not a function; otherwise it returns a creator.
C5_Validation ==
    last.op = "createAction" =>
        LET o == last.options
            raises ==
                \/ o.initialState \in {Null, Undefined}
                \/ o.storeKey \in {Undefined, ""}
                \/ o.async = "true" /\ "handlers" \notin DOMAIN o
                \/ /\ o.async = "true"
                   /\ "handlers" \in DOMAIN o
                   /\ \E h \in {"onWait", "onSuccess", "onFail"} :
                          o.handlers[h] \notin FunctionValues
                \/ o.async \in {"false", Undefined} /\ o.handler \notin FunctionValues
        IN  /\ (last.error # NoError) <=> raises
            /\ last.error # NoError => registry = last.before /\ last.returned = <<>>
            /\ last.error = NoError => Len(last.returned) = 1

C5_Witness ==
    /\ last.op = "createAction"
    /\ last.options.async = "true"
    /\ "handlers" \in DOMAIN last.options
    /\ last.options.handlers.onFail = "5"
    /\ last.error = ErrNotFunction("onFail")
    /\ registry = <<>>

\* C6: an asynchronous registration succeeds and merges its reducer whatever
\* its builder returns; each call of its creator whose builder result has no
\* function-valued promise raises and returns no action object.
C6_PromiseCheckedAtCall ==
    /\ \A i \in 1..Len(creators) :
          IsAsyncCreator(creators[i]) =>
              /\ i <= Len(registry)
              /\ registry[i].reducer.mode = "async"
              /\ registry[i].reducer.name = creators[i].name
    /\ (/\ last.op = "invoke"
        /\ IsAsyncCreator(last.creator)
        /\ Field(last.built, "promise") \notin FunctionValues)
           => /\ last.out.error = ErrPromise
              /\ "value" \notin DOMAIN last.out

C6_Witness ==
    /\ last.op = "invoke"
    /\ IsAsyncCreator(last.creator)
    /\ last.built = [promise |-> "not-a-fn", id |-> "7"]
    /\ last.out.error = ErrPromise
    /\ Len(registry) = 1

\* C7: the reducer merged for name N calls onWait on WAIT@N, onSuccess on
\* SUCCESS@N, onFail on FAIL@N (asynchronous mode) or handler on N
\* (synchronous mode) and returns what it returns; on every other type it
\* returns the state; an undefined state is replaced by the initial state.
C7_ReducerDispatch ==
    /\ (last.op = "createAction" /\ last.error = NoError) =>
          LET r == registry[Len(registry)].reducer
              o == last.options
          IN  /\ r.name = last.name
              /\ r.initialState = o.initialState
              /\ IF o.async = "true"
                 THEN r.mode = "async" /\ r.handlers = o.handlers
                 ELSE r.mode = "sync" /\ r.handler = o.handler
    /\ last.op = "reduce" =>
          LET r == last.reducer
              s == IF last.state = Undefined THEN r.initialState ELSE last.state
              a == [type |-> last.type]
          IN  IF r.mode = "async"
              THEN CASE last.type = "WAIT@" \o r.name ->
                            last.result = Call(r.handlers.onWait, s, a)
                     [] last.type = "SUCCESS@" \o r.name ->
                            last.result = Call(r.handlers.onSuccess, s, a)
                     [] last.type = "FAIL@" \o r.name ->
                            last.result = Call(r.handlers.onFail, s, a)
                     [] OTHER -> last.result = s
              ELSE IF last.type = r.name
                   THEN last.result = Call(r.handler, s, a)
                   ELSE last.result = s

C7_Witness ==
    /\ last.op = "reduce"
    /\ last.reducer.mode = "async"
    /\ last.reducer.name = "a"
    /\ last.state = Undefined
    /\ last.type = "SUCCESS@a"
    /\ last.result = "fn:onSuccess(S0,SUCCESS@a)"

\* the createAction calls of C8, one per entry in the mapping's order; an
\* option of the entry counts as given when it is not undefined (asWritten)
\* or when it is truthy
C8_Calls(options, asWritten) ==
    [i \in 1..Len(options.actions) |->
        LET e == options.actions[i].options
            given(v) == IF asWritten THEN v # Undefined ELSE Truthy(v)
            o == [action |-> e.action, handler |-> e.handler,
                  async |-> IF e.async = "true" \/ "handlers" \in DOMAIN e
                            THEN "true" ELSE "false",
                  initialState |-> IF given(e.initialState) THEN e.initialState
                                   ELSE options.initialState,
                  storeKey |-> IF given(e.storeKey) THEN e.storeKey
                               ELSE options.storeKey]
        IN  [name |-> options.actions[i].name,
             options |-> IF "handlers" \in DOMAIN e
                         THEN WithHandlers(o, e.handlers) ELSE o]]

\* createAction called once per element of todo, until one call raises
RECURSIVE C8_OneByOne(_, _)
C8_OneByOne(acc, todo) ==
    IF todo = <<>> \/ acc.error # NoError THEN acc
    ELSE LET out == createAction(acc.registry, Head(todo).name, Head(todo).options)
         IN  C8_OneByOne([error |-> out.error, registry |-> out.registry,
                          returned |-> acc.returned \o out.returned], Tail(todo))

C8_Equivalent(asWritten) ==
    (last.op = "createActions" /\ Len(last.options.actions) > 0) =>
        LET actions == last.options.actions
            expected == C8_OneByOne([error |-> NoError, registry |-> last.before,
                                     returned |-> <<>>],
                                    C8_Calls(last.options, asWritten))
        IN  /\ last.error = expected.error
            /\ registry = expected.registry
            /\ last.error = NoError =>
                  /\ Len(last.returned) = Len(actions)
                  /\ \A i \in 1..Len(actions) :
                        /\ last.returned[i].key = actions[i].name
                        /\ last.returned[i].creator = expected.returned[i]
                        /\ "handlers" \in DOMAIN actions[i].options =>
                              registry[Len(last.before) + i].reducer.mode = "async"

C9_Handles(r, t) == reducerApply(r, "S1", [type |-> t]) # "S1"

C9_DistinctNames ==
    \A i, j \in 1..Len(registry) :
        i # j => registry[i].reducer.name # registry[j].reducer.name

C9_AtMostOneHandles ==
    \A t \in DispatchTypes :
        \A i, j \in 1..Len(registry) :
            (C9_Handles(registry[i].reducer, t) /\ C9_Handles(registry[j].reducer, t))
                => i = j

\* no synchronous action is named like a lifecycle tag of an asynchronous one
C9_NoNameIsATag ==
    \A i, j \in 1..Len(registry) :
        (registry[i].reducer.mode = "sync" /\ registry[j].reducer.mode = "async")
            => registry[i].reducer.name \notin
                   {"WAIT@" \o registry[j].reducer.name,
                    "SUCCESS@" \o registry[j].reducer.name,
                    "FAIL@" \o registry[j].reducer.name}

\* C9 as written: after successful registrations with pairwise distinct
\* names, no dispatch type makes more than one registered reducer call a
\* handler.
C9_AsWritten == C9_DistinctNames => C9_AtMostOneHandles

\* C9 amended: the same, provided no synchronous action's name equals
\* WAIT@M, SUCCESS@M or FAIL@M of a registered asynchronous action M.
C9_Amended == (C9_DistinctNames /\ C9_NoNameIsATag) => C9_AtMostOneHandles

C9_Witness ==
    /\ Len(registry) = 2
    /\ registry[1].reducer.mode = "async"
    /\ registry[1].reducer.name = "WAIT@a"
    /\ registry[2].reducer.mode = "sync"
    /\ registry[2].reducer.name = "a"
    /\ C9_Handles(registry[1].reducer, "WAIT@WAIT@a")
    /\ C9_Handles(registry[2].reducer, "a")

\* C10: the registry changes only inside a registration: a successful
\* createAction call does exactly one merge, under the store key it was
\* given, and has done it when the creator is returned; a creator call or a
\* reducer call, returning or raising, leaves the registry as it was.
C10_MergeOnlyInRegistration ==
    /\ last.op \in {"invoke", "reduce"} => registry = last.before
    /\ (last.op = "createAction" /\ last.error # NoError) => registry = last.before
    /\ (last.op = "createAction" /\ last.error = NoError) =>
          /\ Len(registry) = Len(last.before) + 1
          /\ SubSeq(registry, 1, Len(last.before)) = last.before
          /\ registry[Len(registry)].storeKey = last.options.storeKey
          /\ registry[Len(registry)].reducer.name = last.name
          /\ creators[Len(creators)] = last.returned[1]
    /\ Len(creators) = Len(registry)
    /\ \A i \in 1..Len(creators) : creators[i].name = registry[i].reducer.name

C10_Witness ==
    /\ last.op = "invoke"
    /\ last.out.error = ErrPromise
    /\ Len(registry) = 1
    /\ registry[1].storeKey = "K2"

====
